---------------------------- MODULE Spec2Model ----------------------------
(***************************************************************************)
(* A model of the educational assistant's content pipeline:                *)
(*   - AIEngine      (src/ai_engine.py): settings, model lifecycle, prompt *)
(*                   construction and generation;                          *)
(*   - OCRProcessor  (src/ocr_processor.py): text extraction, confidence   *)
(*                   and language detection;                               *)
(*   - the Streamlit script (src/app.py, src/utils.py): the sidebar, the   *)
(*                   three result handlers and the interaction log.        *)
(*                                                                         *)
(* Python values are represented as follows.                               *)
(*   str      a TLA+ string (Len, \o and SubSeq act on characters)         *)
(*   float    temperature and top_p are counted in hundredths, so 0.1 is   *)
(*            10 and 2.0 is 200; float('nan') is the value NaN, for which  *)
(*            every ordering comparison is false                           *)
(*   Optional None is <<>> and a supplied value v is <<v>>                 *)
(*   an exception leaving a function is a result with raised = TRUE        *)
(* The program is single-threaded and synchronous, so each public method   *)
(* is one action; the outcomes of the third-party libraries it calls are   *)
(* chosen nondeterministically.  op, args, ret and gen record the one call *)
(* that has just returned: they are the caller's local values, dropped     *)
(* when the script run that made the call ends (EndRun), while the engine  *)
(* lives on in the session.                                                *)
(***************************************************************************)
EXTENDS Integers, Sequences, FiniteSets, TLC

VARIABLES
    model,          \* AIEngine.model: "None" or the identifier it was loaded from
    tokenizer,      \* AIEngine.tokenizer: "None" or the identifier it was loaded from
    model_loaded,   \* AIEngine.model_loaded
    model_name,     \* AIEngine.model_name
    max_length,     \* AIEngine.max_length
    temperature,    \* AIEngine.temperature, in hundredths
    top_p,          \* AIEngine.top_p, in hundredths
    op,             \* the method that has just returned, "idle" when none has
    args,           \* its arguments and the library outcomes it met
    ret,            \* what it gave back: [raised, value]
    gen,            \* what the call did with generate_response and the libraries
    session_state,  \* st.session_state: model_loaded, current_language,
                    \* audio_output_enabled, interaction_logs
    ui,             \* the elements the current script run has put on the page
    history         \* the update_settings calls and the model.generate calls the
                    \* engine has served, oldest first (kept by SpecSampling only)

engine == <<model, tokenizer, model_loaded, model_name, max_length, temperature, top_p>>
app == <<session_state, ui>>
vars == <<model, tokenizer, model_loaded, model_name, max_length, temperature, top_p,
          op, args, ret, gen, session_state, ui, history>>

---------------------------------------------------------------------------
(* Python values *)

None == <<>>
Some(v) == <<v>>

\* float('nan'), outside every range the model uses
NaN == -999999

\* a < b on floats: false as soon as one side is nan
PyLt(a, b) == a # NaN /\ b # NaN /\ a < b

\* builtin min(a, b): the first argument unless the second is smaller
PyMin(a, b) == IF PyLt(b, a) THEN b ELSE a

\* builtin max(a, b): the first argument unless the second is larger
PyMax(a, b) == IF PyLt(a, b) THEN b ELSE a

Whitespace == {" ", "\n", "\t", "\r"}

CharAt(s, i) == SubSeq(s, i, i)

\* s[i:] with 0 <= i
SliceFrom(s, i) == IF i >= Len(s) THEN "" ELSE SubSeq(s, i + 1, Len(s))

\* s[:n] with 0 <= n
SliceTo(s, n) == SubSeq(s, 1, IF n < Len(s) THEN n ELSE Len(s))

\* the least element of a non-empty set of positions
MinOf(P) == CHOOSE k \in P : \A m \in P : k <= m

RECURSIVE FirstNonSpace(_, _)
\* the first position at or after i that holds no whitespace, Len(s) + 1 if none
FirstNonSpace(s, i) ==
    IF i > Len(s) THEN i
    ELSE IF CharAt(s, i) \in Whitespace THEN FirstNonSpace(s, i + 1) ELSE i

RECURSIVE LastNonSpace(_, _)
\* the last position at or before i that holds no whitespace, 0 if none
LastNonSpace(s, i) ==
    IF i < 1 THEN i
    ELSE IF CharAt(s, i) \in Whitespace THEN LastNonSpace(s, i - 1) ELSE i

\* str.strip()
Strip(s) ==
    LET first == FirstNonSpace(s, 1)
    IN  IF first > Len(s) THEN "" ELSE SubSeq(s, first, LastNonSpace(s, Len(s)))

StartsWith(s, p) == Len(p) <= Len(s) /\ SubSeq(s, 1, Len(p)) = p

RECURSIVE Repeat(_, _)
Repeat(s, n) == IF n = 0 THEN "" ELSE s \o Repeat(s, n - 1)

\* a plausible slip: the key ignored
DictGet_AlwaysDefault(d, key, default) == default

\* dict.get(key, default)
DictGet(d, key, default) == IF key \in DOMAIN d THEN d[key] ELSE default

---------------------------------------------------------------------------
(* AIEngine.__init__ *)

DefaultModelName == "google/gemma-2-9b-it"
DefaultMaxLength == 2048
DefaultTemperature == 70
DefaultTopP == 90

NoGen ==
    [called |-> FALSE, prompt |-> "", template |-> "", cap |-> None,
     max_length |-> 0, temperature |-> 0, top_p |-> 0,
     loaded |-> FALSE, failed |-> "none", kept |-> 0, continuation |-> "",
     response |-> "", value |-> ""]

\* st.session_state after initialize_session_state; interaction_logs is read
\* with the default [] until log_interaction first saves it
InitialSession ==
    [model_loaded |-> FALSE, current_language |-> "en",
     audio_output_enabled |-> FALSE, interaction_logs |-> <<>>]

Init ==
    /\ model = "None"
    /\ tokenizer = "None"
    /\ model_loaded = FALSE
    /\ model_name = DefaultModelName
    /\ max_length = DefaultMaxLength
    /\ temperature = DefaultTemperature
    /\ top_p = DefaultTopP
    /\ op = "idle"
    /\ args = <<>>
    /\ ret = [raised |-> FALSE, value |-> None]
    /\ gen = NoGen
    /\ session_state = InitialSession
    /\ ui = <<>>
    /\ history = <<>>

\* no call is on record: the next one can be made
Idle == op = "idle"

\* The script run ends: what its call returned and the page it rendered are
\* dropped, the engine and the session stay.
EndRun ==
    /\ ~Idle
    /\ op' = "idle"
    /\ args' = <<>>
    /\ ret' = [raised |-> FALSE, value |-> None]
    /\ gen' = NoGen
    /\ ui' = <<>>
    /\ UNCHANGED engine
    /\ UNCHANGED <<session_state, history>>

---------------------------------------------------------------------------
(* AIEngine.update_settings *)

TemperatureMin == 10
TemperatureMax == 200
TopPMin == 10
TopPMax == 100
MaxLengthMin == 100
MaxLengthMax == 4096

\* a plausible slip: the lower clamp forgotten
ClampTemperature_NoLower(t) == PyMin(TemperatureMax, t)

\* a plausible slip: min and max exchanged, which always yields the lower bound
ClampMaxLength_Swapped(m) == PyMin(MaxLengthMin, PyMax(MaxLengthMax, m))

ClampTemperature(t) == PyMax(TemperatureMin, PyMin(TemperatureMax, t))

\* a plausible slip: top_p stored as given
ClampTopP_Unclamped(p) == p

ClampTopP(p) == PyMax(TopPMin, PyMin(TopPMax, p))
ClampMaxLength(m) == PyMax(MaxLengthMin, PyMin(MaxLengthMax, m))

\* a plausible slip: a setting that is not supplied falls back to its default
update_settings_ResetsUnsupplied(t, p, m) ==
    /\ Idle
    /\ temperature' = IF t # None THEN ClampTemperature(t[1]) ELSE DefaultTemperature
    /\ top_p' = IF p # None THEN ClampTopP(p[1]) ELSE DefaultTopP
    /\ max_length' = IF m # None THEN ClampMaxLength(m[1]) ELSE DefaultMaxLength
    /\ op' = "update_settings"
    /\ args' = [temperature |-> t, top_p |-> p, max_length |-> m]
    /\ ret' = [raised |-> FALSE, value |-> None]
    /\ gen' = NoGen
    /\ UNCHANGED <<model, tokenizer, model_loaded, model_name>>
    /\ UNCHANGED app

update_settings(t, p, m) ==
    /\ Idle
    /\ temperature' = IF t # None THEN ClampTemperature(t[1]) ELSE temperature
    /\ top_p' = IF p # None THEN ClampTopP(p[1]) ELSE top_p
    /\ max_length' = IF m # None THEN ClampMaxLength(m[1]) ELSE max_length
    /\ op' = "update_settings"
    /\ args' = [temperature |-> t, top_p |-> p, max_length |-> m]
    /\ ret' = [raised |-> FALSE, value |-> None]
    /\ gen' = NoGen
    /\ UNCHANGED <<model, tokenizer, model_loaded, model_name>>
    /\ UNCHANGED app

\* the arguments tried: below, on, inside, on and above each range, and nan
TemperatureArgs == {None} \cup {Some(v) : v \in {-300, 0, 9, 10, 150, 200, 201, 500, NaN}}
TopPArgs == {None} \cup {Some(v) : v \in {-50, 0, 10, 55, 100, 101, 300, NaN}}
MaxLengthArgs == {None} \cup {Some(v) : v \in {-1, 0, 99, 100, 512, 4096, 4097, 100000}}

UpdateSettings ==
    \E t \in TemperatureArgs, p \in TopPArgs, m \in MaxLengthArgs :
        update_settings(t, p, m) /\ UNCHANGED history

SpecSettings == Init /\ [][UpdateSettings \/ EndRun]_vars

\* C1: after construction and after any sequence of update_settings calls,
\* whatever their arguments, temperature is in [0.1, 2.0], top_p is in
\* [0.1, 1.0] and max_length is in [100, 4096].
C1_SettingsInRange ==
    /\ temperature # NaN /\ TemperatureMin <= temperature /\ temperature <= TemperatureMax
    /\ top_p # NaN /\ TopPMin <= top_p /\ top_p <= TopPMax
    /\ MaxLengthMin <= max_length /\ max_length <= MaxLengthMax

\* an update_settings call whose three arguments were all out of range
C1_Witness ==
    /\ op = "update_settings"
    /\ args.temperature = Some(0)
    /\ args.top_p = Some(300)
    /\ args.max_length = Some(100000)

\* the value of [lo, hi] nearest to v
Nearest(v, lo, hi) == IF v > hi THEN hi ELSE IF v < lo THEN lo ELSE v

\* C2: update_settings stores, for each supplied field, the nearest value of
\* the field's range: the upper bound for an input above it, the lower bound
\* for an input below it, the input itself when it is inside the range.
C2_StoresNearest ==
    op = "update_settings" =>
        /\ (args.temperature # None /\ args.temperature[1] # NaN) =>
               temperature = Nearest(args.temperature[1], TemperatureMin, TemperatureMax)
        /\ (args.top_p # None /\ args.top_p[1] # NaN) =>
               top_p = Nearest(args.top_p[1], TopPMin, TopPMax)
        /\ args.max_length # None =>
               max_length = Nearest(args.max_length[1], MaxLengthMin, MaxLengthMax)

\* temperature 5.0 became 2.0, top_p 0.0 became 0.1 and max_length 512 was kept
C2_Witness ==
    /\ op = "update_settings"
    /\ args.temperature = Some(500) /\ temperature = 200
    /\ args.top_p = Some(0) /\ top_p = 10
    /\ args.max_length = Some(512) /\ max_length = 512

---------------------------------------------------------------------------
(* AIEngine.load_model *)

FallbackModel == "microsoft/DialoGPT-medium"

\* bool(x) of an Optional[str]: None and "" are false
Truthy(x) == x # None /\ x[1] # ""

\* The engine after load_model(name), as a record of the fields it writes, its
\* return value and the from_pretrained calls it made.  lib tells which of the
\* four from_pretrained calls succeed: ptok, pmodel (primary tokenizer and
\* model), ftok, fmodel (fallback tokenizer and model).  retry tells whether
\* a failed fallback is followed by another primary attempt (the code has
\* none).
LoadModelBody(name, lib, retry) ==
    LET name1 == IF Truthy(name) THEN name[1] ELSE model_name
        \* try: primary tokenizer, then primary model
        tok1 == IF lib.ptok THEN name1 ELSE tokenizer
        mod1 == IF lib.ptok /\ lib.pmodel THEN name1 ELSE model
        primary == <<[attempt |-> "primary", what |-> "tokenizer", id |-> name1,
                      ok |-> lib.ptok]>>
                   \o (IF lib.ptok
                       THEN <<[attempt |-> "primary", what |-> "model", id |-> name1,
                               ok |-> lib.pmodel]>>
                       ELSE <<>>)
        \* except: fallback tokenizer, then fallback model
        tok2 == IF lib.ftok THEN FallbackModel ELSE tok1
        mod2 == IF lib.ftok /\ lib.fmodel THEN FallbackModel ELSE mod1
        fallback == <<[attempt |-> "fallback", what |-> "tokenizer",
                       id |-> FallbackModel, ok |-> lib.ftok]>>
                    \o (IF lib.ftok
                        THEN <<[attempt |-> "fallback", what |-> "model",
                                id |-> FallbackModel, ok |-> lib.fmodel]>>
                        ELSE <<>>)
    IN  IF lib.ptok /\ lib.pmodel
        THEN [model_name |-> name1, tokenizer |-> tok1, model |-> mod1,
              model_loaded |-> TRUE, value |-> TRUE, calls |-> primary]
        ELSE IF lib.ftok /\ lib.fmodel
        THEN [model_name |-> name1, tokenizer |-> tok2, model |-> mod2,
              model_loaded |-> TRUE, value |-> TRUE, calls |-> primary \o fallback]
        ELSE [model_name |-> name1, tokenizer |-> tok2, model |-> mod2,
              model_loaded |-> model_loaded, value |-> FALSE,
              calls |-> primary \o fallback \o (IF retry THEN primary ELSE <<>>)]

\* a plausible slip: the primary load tried again after the fallback failed
LoadModelResult_Retry(name, lib) == LoadModelBody(name, lib, TRUE)

\* AIEngine.load_model: the fields written, the value returned, the calls made
LoadModelResult(name, lib) == LoadModelBody(name, lib, FALSE)

load_model(name, lib) ==
    LET r == LoadModelResult(name, lib)
    IN  /\ Idle
        /\ model_name' = r.model_name
        /\ tokenizer' = r.tokenizer
        /\ model' = r.model
        /\ model_loaded' = r.model_loaded
        /\ op' = "load_model"
        /\ args' = [model_name |-> name, lib |-> lib, calls |-> r.calls,
                    was_loaded |-> model_loaded]
        /\ ret' = [raised |-> FALSE, value |-> r.value]
        /\ gen' = NoGen
        /\ UNCHANGED <<max_length, temperature, top_p>>
        /\ UNCHANGED app

ModelNameArgs == {None, Some(""), Some("google/gemma-2-2b-it")}
LoadOutcomes == [ptok : BOOLEAN, pmodel : BOOLEAN, ftok : BOOLEAN, fmodel : BOOLEAN]

LoadModel ==
    \E name \in ModelNameArgs, lib \in LoadOutcomes :
        load_model(name, lib) /\ UNCHANGED history

SpecLoad == Init /\ [][LoadModel \/ EndRun]_vars

\* the lifecycle state the engine is left in
Lifecycle == IF model_loaded THEN "Loaded" ELSE "Unloaded"

\* C10: load_model returns True exactly when the engine ends Loaded, and when
\* the primary and the fallback load both fail it returns False and leaves
\* the engine Unloaded, whatever state the call started in.
C10_LoadResultMatchesLifecycle ==
    op = "load_model" =>
        /\ ret.value = (Lifecycle = "Loaded")
        /\ (~(args.lib.ptok /\ args.lib.pmodel) /\ ~(args.lib.ftok /\ args.lib.fmodel)) =>
               (ret.value = FALSE /\ Lifecycle = "Unloaded")

\* the from_pretrained calls of one attempt, in the order they were made
Attempt(calls, a) == SelectSeq(calls, LAMBDA c : c.attempt = a)

\* how many of the calls q load a tokenizer (or a model)
Loads(q, w) == Len(SelectSeq(q, LAMBDA c : c.what = w))

\* C16: every load_model call ends after at most one primary load attempt
\* and at most one fallback load attempt: each attempt loads one tokenizer
\* and at most one model, the fallback is attempted only after a call of the
\* primary attempt failed, never twice, and no primary call follows it.
C16_AtMostOneFallback ==
    op = "load_model" =>
        LET primary == Attempt(args.calls, "primary")
            fallback == Attempt(args.calls, "fallback")
        IN  /\ ret.value \in BOOLEAN
            /\ Loads(primary, "tokenizer") = 1 /\ Loads(primary, "model") <= 1
            /\ Loads(fallback, "tokenizer") <= 1 /\ Loads(fallback, "model") <= 1
            /\ args.calls = primary \o fallback
            /\ fallback # <<>> => ~primary[Len(primary)].ok
            /\ fallback = <<>> => ret.value = TRUE

\* both attempts failed at the model: four calls were made, and no more
C16_Witness ==
    /\ op = "load_model"
    /\ Len(args.calls) = 4
    /\ ~args.lib.pmodel /\ ~args.lib.fmodel
    /\ ret.value = FALSE

---------------------------------------------------------------------------
(* Prompt construction *)

\* AIEngine.prompts
prompts ==
    [
     summarize |->
        [
         en |->
"You are a helpful educational assistant. Summarize the following textbook content in simple terms that a 12-year-old student can understand. Focus on the main concepts and explain them clearly:\n\n{text}\n\nSummary:",
         es |->
"Eres un asistente educativo útil. Resume el siguiente contenido del libro de texto en términos simples que un estudiante de 12 años pueda entender. Enfócate en los conceptos principales y explícalos claramente:\n\n{text}\n\nResumen:",
         fr |->
"Vous êtes un assistant éducatif utile. Résumez le contenu suivant du manuel en termes simples qu'un étudiant de 12 ans peut comprendre. Concentrez-vous sur les concepts principaux et expliquez-les clairement:\n\n{text}\n\nRésumé:",
         de |->
"Sie sind ein hilfreicher Bildungsassistent. Fassen Sie den folgenden Lehrbuchinhalt in einfachen Begriffen zusammen, die ein 12-jähriger Schüler verstehen kann. Konzentrieren Sie sich auf die Hauptkonzepte und erklären Sie sie klar:\n\n{text}\n\nZusammenfassung:"
        ],
     answer_question |->
        [
         en |->
"You are a helpful educational assistant. Answer the following question in a way that a school student can understand. Provide a clear, accurate, and educational response:\n\nQuestion: {question}\n\nAnswer:",
         es |->
"Eres un asistente educativo útil. Responde la siguiente pregunta de una manera que un estudiante escolar pueda entender. Proporciona una respuesta clara, precisa y educativa:\n\nPregunta: {question}\n\nRespuesta:",
         fr |->
"Vous êtes un assistant éducatif utile. Répondez à la question suivante d'une manière qu'un étudiant peut comprendre. Fournissez une réponse claire, précise et éducative:\n\nQuestion: {question}\n\nRéponse:",
         de |->
"Sie sind ein hilfreicher Bildungsassistent. Beantworten Sie die folgende Frage so, dass ein Schüler sie verstehen kann. Geben Sie eine klare, genaue und lehrreiche Antwort:\n\nFrage: {question}\n\nAntwort:"
        ],
     explain_concept |->
        [
         en |->
"You are a helpful educational assistant. Explain the following concept in simple terms that a student can understand. Use examples and analogies if helpful:\n\nConcept: {concept}\n\nExplanation:",
         es |->
"Eres un asistente educativo útil. Explica el siguiente concepto en términos simples que un estudiante pueda entender. Usa ejemplos y analogías si es útil:\n\nConcepto: {concept}\n\nExplicación:",
         fr |->
"Vous êtes un assistant éducatif utile. Expliquez le concept suivant en termes simples qu'un étudiant peut comprendre. Utilisez des exemples et des analogies si c'est utile:\n\nConcept: {concept}\n\nExplication:",
         de |->
"Sie sind ein hilfreicher Bildungsassistent. Erklären Sie das folgende Konzept in einfachen Begriffen, die ein Schüler verstehen kann. Verwenden Sie Beispiele und Analogien, wenn es hilfreich ist:\n\nKonzept: {concept}\n\nErklärung:"
        ]
    ]

\* the first position at or after i that holds a character of C, Len(s) + 1 if none
NextOf(s, i, C) ==
    LET P == {k \in i..Len(s) : CharAt(s, k) \in C}
    IN  IF P = {} THEN Len(s) + 1 ELSE MinOf(P)

NextBrace(s, i) == NextOf(s, i, {"{", "}"})
NextClose(s, i) == NextOf(s, i, {"}"})

Raised == [raised |-> TRUE, value |-> ""]
Returned(v) == [raised |-> FALSE, value |-> v]

RECURSIVE FormatFrom(_, _, _)
\* str.format on the template from position i on: literal text is copied,
\* "{{" and "}}" give one brace, "{name}" gives kw[name] as it is; a lone
\* brace raises ValueError and an unknown name KeyError.
FormatFrom(tpl, i, kw) ==
    LET j == NextBrace(tpl, i)
        lit == SubSeq(tpl, i, j - 1)
    IN  IF j > Len(tpl) THEN Returned(lit)
        ELSE IF j < Len(tpl) /\ CharAt(tpl, j + 1) = CharAt(tpl, j)
        THEN LET rest == FormatFrom(tpl, j + 2, kw)
             IN  IF rest.raised THEN Raised
                 ELSE Returned(lit \o CharAt(tpl, j) \o rest.value)
        ELSE IF CharAt(tpl, j) = "}" THEN Raised
        ELSE LET k == NextClose(tpl, j + 1)
                 name == SubSeq(tpl, j + 1, k - 1)
             IN  IF k > Len(tpl) \/ name \notin DOMAIN kw THEN Raised
                 ELSE LET rest == FormatFrom(tpl, k + 1, kw)
                      IN  IF rest.raised THEN Raised
                          ELSE Returned(lit \o kw[name] \o rest.value)

\* a plausible slip: the result formatted again, so that braces of the user's
\* text are read as fields
PyFormat_Twice(tpl, kw) ==
    LET once == FormatFrom(tpl, 1, kw)
    IN  IF once.raised THEN Raised ELSE FormatFrom(once.value, 1, kw)

\* template.format(**kw)
PyFormat(tpl, kw) == FormatFrom(tpl, 1, kw)

\* translate_text's dictionary of f-strings
translation_prompts(text) ==
    [es |-> "Translate the following text to Spanish:\n\n" \o text \o "\n\nTranslation:",
     fr |-> "Translate the following text to French:\n\n" \o text \o "\n\nTranslation:",
     de |-> "Translate the following text to German:\n\n" \o text \o "\n\nTranslation:",
     en |-> "Translate the following text to English:\n\n" \o text \o "\n\nTranslation:"]

---------------------------------------------------------------------------
(* AIEngine.generate_response *)

\* What the tokenizer and the model do in one call, chosen by the libraries:
\*   fail    the library call that throws: "encode", "generate", "decode",
\*           or "none"
\*   cpt     how many characters of this prompt the tokenizer packs into one
\*           token on average (three to four for ordinary prose), which
\*           decides where truncation at max_length tokens cuts the prompt
\*   echoes  how many times the model's continuation starts by repeating the
\*           prompt
\*   text    the rest of the continuation
MinCharsPerToken == 3
MaxCharsPerToken == 4
MaxEchoes == 1
ContinuationTexts == {"", " \n", " Cells are the units of life.\n"}

GenOutcomes ==
    [fail : {"encode", "generate", "decode"}, cpt : {MinCharsPerToken}, echoes : {0},
     text : {""}]
    \cup [fail : {"none"}, cpt : MinCharsPerToken..MaxCharsPerToken, echoes : 0..MaxEchoes,
          text : ContinuationTexts]

\* The body of generate_response: the value returned, whether an exception
\* leaves the call, and the record of what the call did.  handled tells
\* whether the try block has its except clause.
GenerateResponseBody(prompt, cap, lib, handled) ==
    LET called == [NoGen EXCEPT !.called = TRUE, !.prompt = prompt, !.cap = cap]
    IN  IF ~model_loaded
        THEN [raised |-> FALSE, value |-> "", gen |-> called]
        ELSE
        LET \* tokenizer.encode(prompt, truncation=True, max_length=self.max_length)
            kept == IF Len(prompt) <= max_length * lib.cpt
                    THEN Len(prompt) ELSE max_length * lib.cpt
            \* model.generate(inputs, max_length=max_length or self.max_length, ...)
            limit == IF cap # None /\ cap[1] # 0 THEN cap[1] ELSE max_length
            continuation == Repeat(prompt, lib.echoes) \o lib.text
            \* tokenizer.decode(outputs[0]): the kept input, then the new tokens
            response == SliceTo(prompt, kept) \o continuation
            generated_text == Strip(SliceFrom(response, Len(prompt)))
            used == [called EXCEPT !.loaded = TRUE, !.failed = lib.fail,
                                   !.max_length = limit,
                                   !.temperature = temperature, !.top_p = top_p]
            \* except Exception: return ""
            caught == [raised |-> ~handled, value |-> ""]
        IN  IF lib.fail = "encode"
            THEN caught @@ [gen |-> [used EXCEPT !.max_length = 0,
                                     !.temperature = 0, !.top_p = 0]]
            ELSE IF lib.fail = "generate"
            THEN caught @@ [gen |-> [used EXCEPT !.kept = kept]]
            ELSE IF lib.fail = "decode"
            THEN caught @@ [gen |-> [used EXCEPT !.kept = kept,
                                     !.continuation = continuation]]
            ELSE [raised |-> FALSE, value |-> generated_text,
                  gen |-> [used EXCEPT !.kept = kept, !.continuation = continuation,
                                       !.response = response,
                                       !.value = generated_text]]

\* a plausible slip: the try block without its except clause
generate_response_NoExcept(prompt, cap, lib) ==
    GenerateResponseBody(prompt, cap, lib, FALSE)

\* generate_response(prompt, max_length=cap)
generate_response(prompt, cap, lib) == GenerateResponseBody(prompt, cap, lib, TRUE)

---------------------------------------------------------------------------
(* AIEngine.summarize_text, answer_question, explain_concept, translate_text *)

SummarizeCap == 500
AnswerCap == 800
ExplainCap == 600
TranslateCap == 400

\* The body the three templated tasks share: the blank check, the template
\* lookup, format, generate_response and the substitution of the fixed
\* message for an empty result.
TemplatedTask(kind, field, text, language, cap, blank, unable, lib) ==
    IF Strip(text) = ""
    THEN [raised |-> FALSE, value |-> blank, gen |-> NoGen]
    ELSE
    LET prompt_template == DictGet(prompts[kind], language, prompts[kind]["en"])
        prompt == PyFormat(prompt_template, [f \in {field} |-> text])
    IN  IF prompt.raised
        THEN [raised |-> TRUE, value |-> "",
              gen |-> [NoGen EXCEPT !.template = prompt_template]]
        ELSE
        LET g == generate_response(prompt.value, Some(cap), lib)
        IN  [raised |-> g.raised,
             value |-> IF g.raised THEN ""
                       ELSE IF g.value = "" THEN unable ELSE g.value,
             gen |-> [g.gen EXCEPT !.template = prompt_template]]

\* a plausible slip: the blank check left out of summarize_text
summarize_text_NoBlankCheck(text, language, lib) ==
    LET prompt_template ==
            DictGet(prompts["summarize"], language, prompts["summarize"]["en"])
        prompt == PyFormat(prompt_template, [f \in {"text"} |-> text])
        g == generate_response(prompt.value, Some(SummarizeCap), lib)
    IN  [raised |-> prompt.raised \/ g.raised,
         value |-> IF prompt.raised \/ g.raised THEN ""
                   ELSE IF g.value = "" THEN "Unable to generate summary at this time."
                   ELSE g.value,
         gen |-> [g.gen EXCEPT !.template = prompt_template]]

summarize_text(text, language, lib) ==
    TemplatedTask("summarize", "text", text, language, SummarizeCap,
                  "No text provided for summarization.",
                  "Unable to generate summary at this time.", lib)

\* a plausible slip: an empty result returned as it is
answer_question_NoFallback(question, language, lib) ==
    TemplatedTask("answer_question", "question", question, language, AnswerCap,
                  "No question provided.", "", lib)

answer_question(question, language, lib) ==
    TemplatedTask("answer_question", "question", question, language, AnswerCap,
                  "No question provided.",
                  "Unable to generate answer at this time.", lib)

\* a plausible slip: the cap of answer_question copied into explain_concept
explain_concept_AnswerCap(concept, language, lib) ==
    TemplatedTask("explain_concept", "concept", concept, language, AnswerCap,
                  "No concept provided for explanation.",
                  "Unable to generate explanation at this time.", lib)

explain_concept(concept, language, lib) ==
    TemplatedTask("explain_concept", "concept", concept, language, ExplainCap,
                  "No concept provided for explanation.",
                  "Unable to generate explanation at this time.", lib)

translate_text(text, target_language, lib) ==
    IF Strip(text) = ""
    THEN [raised |-> FALSE, value |-> "", gen |-> NoGen]
    ELSE
    LET prompt == DictGet(translation_prompts(text), target_language,
                          translation_prompts(text)["en"])
        g == generate_response(prompt, Some(TranslateCap), lib)
    IN  [raised |-> g.raised,
         value |-> IF g.raised THEN ""
                   ELSE IF g.value # "" THEN g.value ELSE text,
         gen |-> [g.gen EXCEPT !.template = prompt]]

\* one call of a task method: only the call's record changes
Task(name, text, language, lib, r) ==
    /\ Idle
    /\ op' = name
    /\ args' = [text |-> text, language |-> language, lib |-> lib]
    /\ ret' = [raised |-> r.raised, value |-> r.value]
    /\ gen' = r.gen
    /\ UNCHANGED engine
    /\ UNCHANGED app

\* the inputs tried: empty and blank text, a word, text with braces, field
\* names and newlines, and a passage longer than the shortest context
LongTextRepeats == 6
LongText == Repeat("Photosynthesis turns light into sugar. ", LongTextRepeats)
Texts == {"", " \n\t ", "cells", "{text} {question}\n{concept} }{ {{0}}", LongText}
Supported == {"en", "es", "fr", "de"}
Languages == Supported \cup {"it"}

SummarizeText ==
    \E text \in Texts, language \in Languages, lib \in GenOutcomes :
        /\ Task("summarize_text", text, language, lib, summarize_text(text, language, lib))
        /\ UNCHANGED history

AnswerQuestion ==
    \E text \in Texts, language \in Languages, lib \in GenOutcomes :
        /\ Task("answer_question", text, language, lib, answer_question(text, language, lib))
        /\ UNCHANGED history

ExplainConcept ==
    \E text \in Texts, language \in Languages, lib \in GenOutcomes :
        /\ Task("explain_concept", text, language, lib, explain_concept(text, language, lib))
        /\ UNCHANGED history

TranslateText ==
    \E text \in Texts, language \in Languages, lib \in GenOutcomes :
        /\ Task("translate_text", text, language, lib, translate_text(text, language, lib))
        /\ UNCHANGED history

\* the calls around the tasks: a load that succeeds or fails outright, and
\* the context length set to either end of its range
LoadForTasks ==
    \E ok \in BOOLEAN :
        /\ load_model(None, [ptok |-> ok, pmodel |-> ok, ftok |-> ok, fmodel |-> ok])
        /\ UNCHANGED history

SetContextLength ==
    \E m \in {MaxLengthMin, MaxLengthMax} :
        update_settings(None, None, Some(m)) /\ UNCHANGED history

NextTasks ==
    \/ LoadForTasks
    \/ SetContextLength
    \/ SummarizeText
    \/ AnswerQuestion
    \/ ExplainConcept
    \/ TranslateText
    \/ EndRun

SpecTasks == Init /\ [][NextTasks]_vars

TaskOps == {"summarize_text", "answer_question", "explain_concept", "translate_text"}

\* a task call whose text is not blank
NonBlankTask == op \in TaskOps /\ Strip(args.text) # ""

\* generation cannot succeed: no model is loaded, or a library call throws
GenerationFails == ~model_loaded \/ args.lib.fail # "none"

UnableMessage ==
    [summarize_text |-> "Unable to generate summary at this time.",
     answer_question |-> "Unable to generate answer at this time.",
     explain_concept |-> "Unable to generate explanation at this time."]

TemplatedOps == DOMAIN UnableMessage

\* C3, as claimed: every task kind, translate included, answers a failed
\* generation on non-blank input with a fixed "unable to generate" message
\* and does not raise.
C3_Claimed ==
    (NonBlankTask /\ GenerationFails) =>
        /\ ~ret.raised
        /\ StartsWith(ret.value, "Unable to generate")
        /\ op \in TemplatedOps => ret.value = UnableMessage[op]

\* C3, amended: on non-blank input, when no model is loaded or tokenize,
\* generate or decode throws, no task raises; summarize_text, answer_question
\* and explain_concept return their fixed "Unable to generate ..." message,
\* and translate_text returns its input text unchanged.
C3_FailsSoft ==
    (NonBlankTask /\ GenerationFails) =>
        /\ ~ret.raised
        /\ gen.called /\ gen.value = ""
        /\ op \in TemplatedOps => ret.value = UnableMessage[op]
        /\ op = "translate_text" => ret.value = args.text

\* a loaded model whose generate call threw inside explain_concept
C3_Witness ==
    /\ op = "explain_concept"
    /\ model_loaded
    /\ args.text = "cells"
    /\ args.lib.fail = "generate"
    /\ ret.value = "Unable to generate explanation at this time."

BlankMessage ==
    [summarize_text |-> "No text provided for summarization.",
     answer_question |-> "No question provided.",
     explain_concept |-> "No concept provided for explanation."]

\* C4: summarize_text, answer_question and explain_concept answer an empty or
\* whitespace-only input with their fixed "No ... provided" message, without
\* calling generate_response or touching the tokenizer or model, whether or
\* not a model is loaded.
C4_BlankInputSkipsGeneration ==
    (op \in TemplatedOps /\ Strip(args.text) = "") =>
        /\ ~ret.raised
        /\ ret.value = BlankMessage[op]
        /\ ~gen.called
        /\ ~gen.loaded

\* a whitespace-only question asked while a model is loaded
C4_Witness ==
    /\ op = "answer_question"
    /\ model_loaded
    /\ args.text = " \n\t "
    /\ ret.value = "No question provided."

\* the key of AIEngine.prompts each templated task reads
KindOf ==
    [summarize_text |-> "summarize",
     answer_question |-> "answer_question",
     explain_concept |-> "explain_concept"]

\* C5: with a language code outside {en, es, fr, de} a task builds its prompt
\* from its English template, and with a code inside the set from the
\* template registered for that task kind and language.
C5_TemplateSelection ==
    NonBlankTask =>
        LET lang == IF args.language \in Supported THEN args.language ELSE "en"
        IN  /\ op \in TemplatedOps => gen.template = prompts[KindOf[op]][lang]
            /\ op = "translate_text" =>
                   gen.template = translation_prompts(args.text)[lang]

\* an unrecognised code fell back to English, in a templated task
C5_Witness ==
    /\ op = "explain_concept"
    /\ args.text = "cells"
    /\ args.language = "it"
    /\ gen.template = prompts.explain_concept.en

Placeholder ==
    [summarize_text |-> "{text}",
     answer_question |-> "{question}",
     explain_concept |-> "{concept}"]

LanguageName == [es |-> "Spanish", fr |-> "French", de |-> "German", en |-> "English"]

\* s is t with its placeholder ph replaced by text, and nothing else changed
Interpolates(s, t, ph, text) ==
    \E i \in 1..(Len(t) - Len(ph) + 1) :
        /\ SubSeq(t, i, i + Len(ph) - 1) = ph
        /\ s = SubSeq(t, 1, i - 1) \o text \o SubSeq(t, i + Len(ph), Len(t))

\* C6: the prompt a task builds is its template's text before the
\* placeholder, the user's text verbatim, and the template's text after the
\* placeholder, also when the user's text holds braces, field names or
\* newlines; building it does not raise.
C6_LosslessInterpolation ==
    NonBlankTask =>
        /\ gen.called
        /\ op \in TemplatedOps =>
               Interpolates(gen.prompt, gen.template, Placeholder[op], args.text)
        /\ op = "translate_text" =>
               \E l \in Supported :
                   gen.prompt = "Translate the following text to " \o LanguageName[l]
                                \o ":\n\n" \o args.text \o "\n\nTranslation:"

\* a summary asked in German of a text full of braces and field names
C6_Witness ==
    /\ op = "summarize_text"
    /\ args.language = "de"
    /\ args.text = "{text} {question}\n{concept} }{ {{0}}"
    /\ gen.called

\* C7, as claimed, in the case it names: when the prompt was truncated at
\* tokenization, generate_response decodes an output and the model's
\* continuation does not itself repeat the prompt, what generate_response
\* returns is the stripped continuation the model generated, and it does not
\* start with the prompt.
C7_ClaimedWhenTruncated ==
    (/\ gen.called /\ gen.loaded /\ gen.failed = "none"
     /\ gen.kept < Len(gen.prompt)
     /\ args.lib.echoes = 0) =>
        /\ gen.value = Strip(gen.continuation)
        /\ ~StartsWith(gen.value, gen.prompt)

\* the cap the specification gives for each task kind
ClaimedCap ==
    [summarize_text |-> 500, answer_question |-> 800,
     explain_concept |-> 600, translate_text |-> 400]

\* C12: each task kind passes its own fixed cap to the generation call as the
\* upper bound (summarize 500, answer 800, explain 600, translate 400),
\* whatever the language, the input text and the current max_length setting:
\* it is the max_length argument of generate_response and, when the model
\* is reached, the max_length given to model.generate.
C12_FixedCaps ==
    NonBlankTask =>
        /\ gen.called
        /\ gen.cap = Some(ClaimedCap[op])
        /\ (gen.loaded /\ gen.failed # "encode") => gen.max_length = ClaimedCap[op]

\* a French translation of the long passage while max_length is 100
C12_Witness ==
    /\ op = "translate_text"
    /\ max_length = MaxLengthMin
    /\ args.language = "fr"
    /\ args.text = LongText
    /\ gen.loaded /\ gen.failed = "none"
    /\ gen.max_length = 400

---------------------------------------------------------------------------
(* update_settings and generation calls in sequence *)

\* how many calls the history holds at most
MaxHistory == 3

\* the arguments and library outcomes tried: a value inside and one outside
\* each range, and a generation that fails at encode, fails at generate or
\* succeeds
SamplingTemperatures == {None, Some(150), Some(500)}
SamplingTopPs == {None, Some(0)}
SamplingOutcomes ==
    [fail : {"encode", "generate"}, cpt : {MinCharsPerToken}, echoes : {0}, text : {""}]
    \cup [fail : {"none"}, cpt : {MinCharsPerToken}, echoes : {0},
          text : {" Cells are the units of life.\n"}]

\* the call reached model.generate, which was given temperature and top_p
Sampled(g) == g.called /\ g.loaded /\ g.failed # "encode"

\* the history after a task call that did what g records
AfterGeneration(g) ==
    IF Sampled(g)
    THEN Append(history, [call |-> "generate", temperature |-> Some(g.temperature),
                          top_p |-> Some(g.top_p)])
    ELSE history

UpdateSampling ==
    \E t \in SamplingTemperatures, p \in SamplingTopPs :
        /\ Len(history) < MaxHistory
        /\ update_settings(t, p, None)
        /\ history' = Append(history, [call |-> "update_settings", temperature |-> t,
                                       top_p |-> p])

AnswerSampling ==
    \E lib \in SamplingOutcomes :
        LET r == answer_question("cells", "en", lib)
        IN  /\ Len(history) < MaxHistory
            /\ Task("answer_question", "cells", "en", lib, r)
            /\ history' = AfterGeneration(r.gen)

TranslateSampling ==
    \E lib \in SamplingOutcomes :
        LET r == translate_text("cells", "fr", lib)
        IN  /\ Len(history) < MaxHistory
            /\ Task("translate_text", "cells", "fr", lib, r)
            /\ history' = AfterGeneration(r.gen)

NextSampling ==
    \/ LoadForTasks
    \/ UpdateSampling
    \/ AnswerSampling
    \/ TranslateSampling
    \/ EndRun

SpecSampling == Init /\ [][NextSampling]_vars

RECURSIVE LeftBy(_)
\* the temperature and top_p the update_settings calls of h leave behind: for
\* each, the value of its range nearest to the last argument supplied, and the
\* default 0.7 or 0.9 when none was supplied
LeftBy(h) ==
    IF h = <<>> THEN [temperature |-> 70, top_p |-> 90]
    ELSE LET before == LeftBy(SubSeq(h, 1, Len(h) - 1))
             e == h[Len(h)]
         IN  IF e.call # "update_settings" THEN before
             ELSE [temperature |->
                       IF e.temperature = None THEN before.temperature
                       ELSE Nearest(e.temperature[1], TemperatureMin, TemperatureMax),
                   top_p |->
                       IF e.top_p = None THEN before.top_p
                       ELSE Nearest(e.top_p[1], TopPMin, TopPMax)]

\* every generation call of h sampled with what the updates before it left
SamplesWithLatest(h) ==
    \A i \in 1..Len(h) :
        h[i].call = "generate" =>
            /\ h[i].temperature = Some(LeftBy(SubSeq(h, 1, i - 1)).temperature)
            /\ h[i].top_p = Some(LeftBy(SubSeq(h, 1, i - 1)).top_p)

\* C17: in any sequence of update_settings and generation calls, each
\* generation call samples with the temperature and top_p left by the most
\* recent update_settings before it, after clamping, or with the defaults 0.7
\* and 0.9 when none came before; and no later call, an update included,
\* changes what the history holds of a call that has returned.
C17_SamplingFollowsSettings ==
    [][/\ SamplesWithLatest(history')
       /\ Len(history') >= Len(history)
       /\ \A i \in 1..Len(history) : history'[i] = history[i]
       /\ (op' \in TaskOps /\ Sampled(gen')) =>
              /\ gen'.temperature = LeftBy(history).temperature
              /\ gen'.top_p = LeftBy(history).top_p]_vars

\* an update out of both ranges, a generation that sampled with 2.0 and 0.1,
\* then a second update: the returned call still shows 2.0 and 0.1
C17_Witness ==
    /\ op = "update_settings"
    /\ history = <<[call |-> "update_settings", temperature |-> Some(500),
                    top_p |-> Some(0)],
                   [call |-> "generate", temperature |-> Some(200), top_p |-> Some(10)],
                   [call |-> "update_settings", temperature |-> Some(150),
                    top_p |-> None]>>
    /\ temperature = 150 /\ top_p = 10

---------------------------------------------------------------------------
(* OCRProcessor *)

\* the characters with ord(char) <= 127 that a text of the model can hold
AsciiChars ==
    {"\n", "\t", "\r",
     " ", "!", "\"", "#", "$", "%", "&", "'", "(", ")", "*", "+",
     ",", "-", ".", "/", "0", "1", "2", "3", "4", "5", "6", "7",
     "8", "9", ":", ";", "<", "=", ">", "?", "@", "A", "B", "C",
     "D", "E", "F", "G", "H", "I", "J", "K", "L", "M", "N", "O",
     "P", "Q", "R", "S", "T", "U", "V", "W", "X", "Y", "Z", "[",
     "\\", "]", "^", "_", "a", "b", "c", "d", "e", "f", "g",
     "h", "i", "j", "k", "l", "m", "n", "o", "p", "q", "r", "s",
     "t", "u", "v", "w", "x", "y", "z", "{", "|", "}", "~"}

\* a float as the quotient num / den of two integers, den > 0
Ratio(num, den) == [num |-> num, den |-> den]
Zero == Ratio(0, 1)

\* int(x) of a number counted in hundredths: truncation towards zero
PyInt(x) == IF x >= 0 THEN x \div 100 ELSE -((-x) \div 100)

RECURSIVE SumSeq(_)
SumSeq(q) == IF q = <<>> THEN 0 ELSE Head(q) + SumSeq(Tail(q))

RECURSIVE SplitFrom(_, _, _)
\* s.split(sep) from position i on, for a separator of the set C: the pieces
\* between separators, empty ones included
SplitFrom(s, i, C) ==
    LET j == NextOf(s, i, C)
    IN  IF j > Len(s) THEN <<SubSeq(s, i, Len(s))>>
        ELSE <<SubSeq(s, i, j - 1)>> \o SplitFrom(s, j + 1, C)

\* line.split(): the runs of characters between whitespace
Words(line) == SelectSeq(SplitFrom(line, 1, Whitespace), LAMBDA w : w # "")

RECURSIVE Join(_, _)
\* sep.join(q)
Join(sep, q) ==
    IF q = <<>> THEN ""
    ELSE IF Len(q) = 1 THEN q[1]
    ELSE q[1] \o sep \o Join(sep, Tail(q))

\* a plausible slip: the test that skips empty lines left out
clean_text_KeepBlank(text) ==
    LET lines == SplitFrom(text, 1, {"\n"})
        normal == [k \in 1..Len(lines) |-> Join(" ", Words(lines[k]))]
    IN  Join("\n", normal)

\* OCRProcessor.clean_text
clean_text(text) ==
    LET lines == SplitFrom(text, 1, {"\n"})
        normal == [k \in 1..Len(lines) |-> Join(" ", Words(lines[k]))]
        cleaned_lines == SelectSeq(normal, LAMBDA line : Strip(line) # "")
    IN  Join("\n", cleaned_lines)

\* What the libraries do in one process_uploaded_image call:
\*   open    whether Image.open and np.array succeed
\*   text    extract_text's chain: fail names the call that throws
\*           ("preprocess", "image_to_string" or "none"), raw is the text
\*           image_to_string gives
\*   data    get_text_confidence's chain: fail names the call that throws
\*           ("preprocess", "image_to_data", "int" or "none"), conf is the
\*           list under data['conf'], in hundredths.  pytesseract fills it
\*           with whole numbers (as int or as decimal string); an entry
\*           that int() cannot convert is the failure "int"
MaxTokens == 3
ConfValues == {-100, 0, 100, 9600, 10000}
RawTexts ==
    {"", " \n  \n", "Hello   world \n\n second\tline ", "ÀÀÀÀÀ hello", "año",
     "one line", "\n\n  a \r\n\tb  c\t\r\n \t \nd\n"}

RECURSIVE SeqsUpTo(_, _)
\* the sequences over S of length at most n
SeqsUpTo(S, n) ==
    IF n = 0 THEN {<<>>}
    ELSE LET shorter == SeqsUpTo(S, n - 1)
         IN  shorter \cup {Append(q, x) : q \in shorter, x \in S}

TextOutcomes ==
    [fail : {"preprocess", "image_to_string"}, raw : {""}]
    \cup [fail : {"none"}, raw : RawTexts]

DataOutcomes ==
    [fail : {"preprocess", "image_to_data", "int"}, conf : {<<>>}]
    \cup [fail : {"none"}, conf : SeqsUpTo(ConfValues, MaxTokens)]

OcrOutcomes ==
    [open : {FALSE}, text : {[fail |-> "preprocess", raw |-> ""]},
     data : {[fail |-> "preprocess", conf |-> <<>>]}]
    \cup [open : {TRUE}, text : TextOutcomes, data : DataOutcomes]

\* OCRProcessor.extract_text: whatever throws, "" is returned
extract_text(lib) ==
    IF lib.text.fail # "none" THEN Returned("")
    ELSE Returned(clean_text(lib.text.raw))

\* a plausible slip: the -1 markers and zeros kept in the average
Kept_All(conf) == [k \in 1..Len(conf) |-> PyInt(conf[k])]

\* a plausible slip: >= in place of >, so that zeros are counted
Kept_NonNegative(conf) ==
    SelectSeq([k \in 1..Len(conf) |-> PyInt(conf[k])], LAMBDA c : c >= 0)

\* [int(conf) for conf in data['conf'] if int(conf) > 0]
Kept(conf) == SelectSeq([k \in 1..Len(conf) |-> PyInt(conf[k])], LAMBDA c : c > 0)

\* OCRProcessor.get_text_confidence: whatever throws, 0.0 is returned
get_text_confidence(lib) ==
    IF lib.data.fail # "none" THEN Returned(Zero)
    ELSE LET confidences == Kept(lib.data.conf)
         IN  IF confidences # <<>>
             THEN Returned(Ratio(SumSeq(confidences), Len(confidences)))
             ELSE Returned(Zero)

\* a plausible slip: the threshold taken as one half
detect_language_Half(text) ==
    LET non_ascii_count == Cardinality({k \in 1..Len(text) : CharAt(text, k) \notin AsciiChars})
        total_chars == Len(text)
    IN  IF total_chars = 0 THEN "en"
        ELSE IF 2 * non_ascii_count > total_chars THEN "es"
        ELSE "en"

\* OCRProcessor.detect_language; the quotient non_ascii_count / total_chars
\* exceeds 0.3 exactly when 10 * non_ascii_count > 3 * total_chars (in floating
\* point too, for any text shorter than 10^15 characters)
detect_language(text) ==
    LET non_ascii_count == Cardinality({k \in 1..Len(text) : CharAt(text, k) \notin AsciiChars})
        total_chars == Len(text)
    IN  IF total_chars = 0 THEN "en"
        ELSE IF 10 * non_ascii_count > 3 * total_chars THEN "es"
        ELSE "en"

\* The body of process_uploaded_image; handled tells whether the try block
\* has its except clause.
ProcessUploadedImageBody(lib, handled) ==
    LET text == extract_text(lib)
        confidence == get_text_confidence(lib)
        language == detect_language(text.value)
        thrown == ~lib.open \/ text.raised \/ confidence.raised
    IN  IF thrown
        THEN [raised |-> ~handled, value |-> <<"", Zero, "en">>]
        ELSE [raised |-> FALSE, value |-> <<text.value, confidence.value, language>>]

\* a plausible slip: the try block without its except clause
process_uploaded_image_NoExcept(lib) == ProcessUploadedImageBody(lib, FALSE)

\* OCRProcessor.process_uploaded_image
process_uploaded_image(lib) == ProcessUploadedImageBody(lib, TRUE)

ProcessUploadedImage ==
    \E lib \in OcrOutcomes :
        /\ Idle
        /\ op' = "process_uploaded_image"
        /\ args' = [lib |-> lib]
        /\ ret' = process_uploaded_image(lib)
        /\ gen' = NoGen
        /\ UNCHANGED engine
        /\ UNCHANGED <<session_state, ui, history>>

\* one direct call of a method of the processor that takes no image
OcrCall(name, a, r) ==
    /\ Idle
    /\ op' = name
    /\ args' = a
    /\ ret' = r
    /\ gen' = NoGen
    /\ UNCHANGED engine
    /\ UNCHANGED <<session_state, ui, history>>

\* the texts tried on detect_language: empty, pure ASCII, and texts whose
\* share of non-ASCII characters is 5/11, 1/3, 3/9, 3/10, 6/20, 2/7 and 1/1
LanguageTexts ==
    {"", "hello", "Hello, world!\n", "ÀÀÀÀÀ hello", "año", "ááá123456",
     "ááá1234567", "ññññññ12345678901234", "áá12345", "ñ"}

DetectLanguage ==
    \E text \in LanguageTexts :
        OcrCall("detect_language", [text |-> text], Returned(detect_language(text)))

CleanText ==
    \E text \in RawTexts :
        OcrCall("clean_text", [text |-> text], Returned(clean_text(text)))

GetTextConfidence ==
    \E data \in DataOutcomes :
        OcrCall("get_text_confidence", [lib |-> [data |-> data]],
                get_text_confidence([data |-> data]))

NextOCR ==
    \/ ProcessUploadedImage
    \/ DetectLanguage
    \/ CleanText
    \/ GetTextConfidence
    \/ EndRun

SpecOCR == Init /\ [][NextOCR]_vars

\* C8: whatever the image and whatever the OCR library calls do,
\* process_uploaded_image returns a confidence in [0, 100] and a language
\* code of the supported set; negative per-token confidences never take the
\* average out of [0, 100].
C8_ConfidenceAndLanguageInRange ==
    op = "process_uploaded_image" =>
        /\ ret.value[2].den > 0
        /\ 0 <= ret.value[2].num
        /\ ret.value[2].num <= 100 * ret.value[2].den
        /\ ret.value[3] \in Supported

\* a confidence list holding a -1 marker beside a real confidence
C8_Witness ==
    /\ op = "process_uploaded_image"
    /\ args.lib.data.fail = "none"
    /\ args.lib.data.conf = <<-100, 9600, -100>>
    /\ ret.value[2] = Ratio(96, 1)

\* C9: process_uploaded_image never raises: whichever library call throws, it
\* returns a (text, confidence, language) triple, and when opening or
\* decoding the image is what failed the triple is ("", 0.0, "en").
C9_NeverRaises ==
    op = "process_uploaded_image" =>
        /\ ~ret.raised
        /\ Len(ret.value) = 3
        /\ ~args.lib.open => ret.value = <<"", Zero, "en">>

\* an image that could not be opened
C9_Witness ==
    /\ op = "process_uploaded_image"
    /\ ~args.lib.open
    /\ ret.value = <<"", Zero, "en">>

\* the number of characters of text with ord(char) > 127
NonAsciiCount(text) ==
    Cardinality({k \in 1..Len(text) : CharAt(text, k) \notin AsciiChars})

\* C11: detect_language returns 'es' for every text whose fraction of
\* characters with code point above 127 is strictly greater than 0.3, and
\* 'en' for every pure-ASCII text and for the empty text.
C11_DetectLanguageByRatio ==
    op = "detect_language" =>
        LET n == NonAsciiCount(args.text)
            total == Len(args.text)
        IN  /\ (total > 0 /\ 10 * n > 3 * total) => ret.value = "es"
            /\ n = 0 => ret.value = "en"
            /\ total = 0 => ret.value = "en"

\* the spec's example: 5 of the 11 characters are non-ASCII
C11_Witness ==
    /\ op = "detect_language"
    /\ args.text = "ÀÀÀÀÀ hello"
    /\ NonAsciiCount(args.text) = 5 /\ Len(args.text) = 11
    /\ ret.value = "es"

\* C13: get_text_confidence returns the arithmetic mean of exactly the
\* per-token confidences strictly greater than zero (zeros and negative values
\* are in neither the sum nor the count), and 0.0 when there is none or when
\* a call of its try block throws.
C13_MeanOfPositive ==
    op = "get_text_confidence" =>
        LET conf == args.lib.data.conf
            positive == SelectSeq(conf, LAMBDA c : c > 0)
        IN  /\ ~ret.raised
            /\ IF args.lib.data.fail # "none" \/ positive = <<>>
               THEN ret.value = Zero
               ELSE /\ ret.value.den = Len(positive)
                    /\ 100 * ret.value.num = SumSeq(positive)

\* a zero, a -1 marker and one real confidence: the mean is 96 / 1
C13_Witness ==
    /\ op = "get_text_confidence"
    /\ args.lib.data.fail = "none"
    /\ args.lib.data.conf = <<0, -100, 9600>>
    /\ ret.value = Ratio(96, 1)

\* C14, as claimed: detect_language classifies a non-empty text as English
\* only when its fraction of characters with code point above 127 is below
\* 0.3 and as Spanish otherwise, a fraction of exactly 0.3 included.
C14_ClaimedThreshold ==
    (op = "detect_language" /\ Len(args.text) > 0) =>
        LET n == NonAsciiCount(args.text)
            total == Len(args.text)
        IN  ret.value = IF 10 * n < 3 * total THEN "en" ELSE "es"

\* C15, as claimed: when the text-extraction call of the OCR library fails
\* for an image that could be opened, process_uploaded_image returns exactly
\* ("", 0.0, "en"), whether or not the confidence-mode call on the same
\* image succeeds.
C15_TextFailureGivesSoftFailTriple ==
    (/\ op = "process_uploaded_image"
     /\ args.lib.open
     /\ args.lib.text.fail # "none") =>
        ret.value = <<"", Zero, "en">>

\* the positions of s where a run of non-whitespace characters starts
RunStarts(s) ==
    {i \in 1..Len(s) : /\ CharAt(s, i) \notin Whitespace
                       /\ (i = 1 \/ CharAt(s, i - 1) \in Whitespace)}

\* the position where the run that starts at i ends
RunEnd(s, i) ==
    MinOf({j \in i..Len(s) : j = Len(s) \/ CharAt(s, j + 1) \in Whitespace})

RECURSIVE RunsFrom(_, _)
\* the maximal runs of non-whitespace characters of s from position i on
RunsFrom(s, i) ==
    LET starts == {k \in RunStarts(s) : k >= i}
    IN  IF starts = {} THEN <<>>
        ELSE LET a == MinOf(starts)
                 b == RunEnd(s, a)
             IN  <<SubSeq(s, a, b)>> \o RunsFrom(s, b + 1)

\* C19: for every raw OCR text, clean_text returns the lines of the input
\* that are not blank, in their order, each as its runs of non-whitespace
\* characters separated by one space, joined by single newlines; the result
\* has no empty line, no two adjacent whitespace characters and no
\* whitespace at either end.
C19_CleanTextNormalises ==
    op = "clean_text" =>
        LET out == ret.value
            kept == SelectSeq(SplitFrom(args.text, 1, {"\n"}),
                              LAMBDA l : RunsFrom(l, 1) # <<>>)
            lines == IF out = "" THEN <<>> ELSE SplitFrom(out, 1, {"\n"})
        IN  /\ Len(lines) = Len(kept)
            /\ \A k \in 1..Len(lines) :
                   /\ lines[k] # ""
                   /\ lines[k] = Join(" ", RunsFrom(kept[k], 1))
            /\ \A k \in 1..(Len(out) - 1) :
                   ~(CharAt(out, k) \in Whitespace /\ CharAt(out, k + 1) \in Whitespace)
            /\ out # "" =>
                   /\ CharAt(out, 1) \notin Whitespace
                   /\ CharAt(out, Len(out)) \notin Whitespace

\* blank lines, carriage returns, tabs and runs of spaces around four words
C19_Witness ==
    /\ op = "clean_text"
    /\ args.text = "\n\n  a \r\n\tb  c\t\r\n \t \nd\n"
    /\ ret.value = "a\nb c\nd"

---------------------------------------------------------------------------
(* The Streamlit script (src/app.py).  Every interaction runs main() once: *)
(* sidebar_settings, then the tabs, of which at most one has its button    *)
(* clicked.  A run is modelled as the sidebar step followed by at most one *)
(* tab step; st.rerun() ends the run at once.  ui holds the elements the   *)
(* handlers put on the page, as <<kind, ...>> tuples, labels without their *)
(* pictograms; the static parts of the page are left out.                  *)

\* utils.get_language_name
get_language_name(code) ==
    DictGet([en |-> "English", es |-> "Spanish", fr |-> "French", de |-> "German",
             it |-> "Italian", pt |-> "Portuguese", ru |-> "Russian",
             ja |-> "Japanese", ko |-> "Korean", zh |-> "Chinese"],
            code, "Unknown")

UpperCase == "ABCDEFGHIJKLMNOPQRSTUVWXYZ"
LowerCase == "abcdefghijklmnopqrstuvwxyz"

\* str.lower() of one character (ASCII letters; the concepts tried hold no other)
LowerChar(c) ==
    LET at == {k \in 1..Len(UpperCase) : CharAt(UpperCase, k) = c}
    IN  IF at = {} THEN c ELSE CharAt(LowerCase, MinOf(at))

RECURSIVE Lower(_)
\* str.lower()
Lower(s) == IF s = "" THEN "" ELSE LowerChar(CharAt(s, 1)) \o Lower(SliceFrom(s, 1))

RECURSIVE Replace(_, _, _)
\* s.replace(a, b) for a single character a
Replace(s, a, b) ==
    IF s = "" THEN ""
    ELSE (IF CharAt(s, 1) = a THEN b ELSE CharAt(s, 1)) \o Replace(SliceFrom(s, 1), a, b)

\* utils.create_download_button: the button is made only for non-empty content
create_download_button(content, filename, label) ==
    IF content # "" THEN <<<<"download_button", label, content, filename>>>> ELSE <<>>

\* utils.display_confidence_bar: the bar and its caption, for a confidence above 0
display_confidence_bar(confidence) ==
    IF confidence.num > 0
    THEN <<<<"progress", confidence>>, <<"caption", "Confidence", confidence>>>>
    ELSE <<>>

\* a plausible slip: the new entry saved alone, in place of the list
log_interaction_Overwrite(logs, timestamp, interaction_type, details) ==
    <<[timestamp |-> timestamp, type |-> interaction_type, details |-> details]>>

\* utils.log_interaction: the entry appended to the saved list
log_interaction(logs, timestamp, interaction_type, details) ==
    Append(logs, [timestamp |-> timestamp, type |-> interaction_type,
                  details |-> details])

\* how many entries the interaction log holds at most
MaxLogs == 2

\* the widget values and library outcomes tried; a question is the text typed
\* or the example question kept in the session, whichever the tab passes on
SliderTemperatures == {70, 150}
SliderTopPs == {90, 50}
SelectedLanguages == {"en", "es"}
Timestamps == {"2025-01-01 09:00:00"}
Questions == {"What is gravity?"}
Concepts == {"The Water Cycle"}
FileNames == {"page.png"}
SidebarLoadOutcomes ==
    {lib \in LoadOutcomes : lib.ptok = lib.pmodel /\ lib.ftok = lib.fmodel
                            /\ (lib.ptok => lib.ftok)}
TabGenOutcomes ==
    [fail : {"generate"}, cpt : {MinCharsPerToken}, echoes : {0}, text : {""}]
    \cup [fail : {"none"}, cpt : {MinCharsPerToken}, echoes : {0},
          text : {" Cells are the units of life.\n"}]
\* speech synthesis: the call of the try block that throws, "none" when none does
TtsOutcomes == {"none", "import", "save"}
UploadOutcomes ==
    {lib \in OcrOutcomes :
        /\ lib.text.fail \in {"none", "image_to_string"}
        /\ lib.text.raw \in {"", "año"}
        /\ lib.data.fail = "none" /\ lib.data.conf = <<9600>>}

\* sidebar_settings: the Load and Reload buttons, update_settings with the
\* slider values while the session says a model is loaded, the language
\* and the audio widgets.  click is the sidebar button clicked, "none" when
\* none was.
sidebar_settings(click, lib, t, p, language, audio) ==
    LET loading == ~session_state.model_loaded /\ click = "Load AI Model"
        r == LoadModelResult(None, lib)
        success == loading /\ r.value
        reload == session_state.model_loaded /\ click = "Reload Model"
        rerun == success \/ reload
        flag == IF success THEN TRUE
                ELSE IF reload THEN FALSE
                ELSE session_state.model_loaded
        settings == ~rerun /\ flag
    IN  /\ Idle
        /\ click = "Load AI Model" => ~session_state.model_loaded
        /\ click = "Reload Model" => session_state.model_loaded
        /\ model_name' = IF loading THEN r.model_name ELSE model_name
        /\ tokenizer' = IF loading THEN r.tokenizer ELSE tokenizer
        /\ model' = IF loading THEN r.model ELSE model
        /\ model_loaded' = IF loading THEN r.model_loaded ELSE model_loaded
        /\ temperature' = IF settings THEN ClampTemperature(t) ELSE temperature
        /\ top_p' = IF settings THEN ClampTopP(p) ELSE top_p
        /\ UNCHANGED max_length
        /\ session_state' =
               IF rerun THEN [session_state EXCEPT !.model_loaded = flag]
               ELSE [session_state EXCEPT !.model_loaded = flag,
                                          !.current_language = language,
                                          !.audio_output_enabled = audio]
        /\ ui' = IF success THEN <<<<"sidebar.success", "Model loaded!">>>>
                 ELSE IF reload \/ flag THEN <<<<"sidebar.success", "Model Loaded">>>>
                 ELSE <<>>
        /\ op' = IF rerun THEN "rerun" ELSE "sidebar_settings"
        /\ args' = IF loading THEN [click |-> click, lib |-> lib] ELSE [click |-> click]
        /\ ret' = [raised |-> FALSE, value |-> None]
        /\ gen' = NoGen
        /\ UNCHANGED history

NoLoad == [ptok |-> FALSE, pmodel |-> FALSE, ftok |-> FALSE, fmodel |-> FALSE]

SidebarLoad ==
    \E lib \in SidebarLoadOutcomes, language \in SelectedLanguages, audio \in BOOLEAN :
        sidebar_settings("Load AI Model", lib, DefaultTemperature, DefaultTopP,
                         language, audio)

SidebarReload ==
    sidebar_settings("Reload Model", NoLoad, DefaultTemperature, DefaultTopP, "en", FALSE)

SidebarWidgets ==
    \E t \in SliderTemperatures, p \in SliderTopPs, language \in SelectedLanguages,
       audio \in BOOLEAN :
        sidebar_settings("none", NoLoad, t, p, language, audio)

\* the try block around gTTS, tts.save and st.audio: what it puts on the
\* page and whether an exception leaves it.  handled tells whether the try
\* block has its except clause.
AudioOutput(text, tts, handled) ==
    IF ~session_state.audio_output_enabled THEN [raised |-> FALSE, ui |-> <<>>]
    ELSE IF tts = "none"
    THEN [raised |-> FALSE,
          ui |-> <<<<"audio", text, session_state.current_language>>>>]
    ELSE IF handled
    THEN [raised |-> FALSE, ui |-> <<<<"warning", "Audio generation failed: " \o tts>>>>]
    ELSE [raised |-> TRUE, ui |-> <<>>]

\* What the three handlers do with a non-empty generated text: the header
\* and the text, the audio block, the download buttons, the log entry.
ShowResult(header, text, buttons, timestamp, interaction_type, details, tts, handled) ==
    LET audio == AudioOutput(text, tts, handled)
        shown == <<<<"subheader", header>>, <<"markdown", "**" \o text \o "**">>>>
                 \o audio.ui
    IN  IF audio.raised
        THEN [raised |-> TRUE, ui |-> shown, logs |-> session_state.interaction_logs]
        ELSE [raised |-> FALSE, ui |-> shown \o buttons,
              logs |-> log_interaction(session_state.interaction_logs, timestamp,
                                       interaction_type, details)]

\* the page of a handler that renders ui and logs nothing
Page(raised, elements) ==
    [raised |-> raised, ui |-> elements, logs |-> session_state.interaction_logs]

\* The body of process_text_question.
ProcessTextQuestionBody(question, lib, tts, timestamp, handled) ==
    LET r == answer_question(question, session_state.current_language, lib)
        answer == r.value
        page == IF r.raised THEN Page(TRUE, <<>>)
                ELSE IF answer # ""
                THEN ShowResult("AI Answer", answer,
                                create_download_button(answer, "ai_answer.txt",
                                                       "Download Answer"),
                                timestamp, "text_qa",
                                [question |-> question, answer_length |-> Len(answer),
                                 language |-> session_state.current_language],
                                tts, handled)
                ELSE Page(FALSE, <<<<"error", "Could not generate answer. Please try again.">>>>)
    IN  page @@ [value |-> answer, gen |-> r.gen]

\* a plausible slip: the audio try block without its except clause
process_text_question_NoExcept(question, lib, tts, timestamp) ==
    ProcessTextQuestionBody(question, lib, tts, timestamp, FALSE)

process_text_question(question, lib, tts, timestamp) ==
    ProcessTextQuestionBody(question, lib, tts, timestamp, TRUE)

NotLoadedPage ==
    Page(FALSE, <<<<"error", "Please load the AI model first!">>>>)
    @@ [value |-> "", gen |-> NoGen]

\* a plausible slip: the question processed without looking at the session flag
text_qa_tab_NoGuard(question, lib, tts, timestamp) ==
    process_text_question(question, lib, tts, timestamp)

\* text_qa_tab with a question typed and "Get Answer" clicked
text_qa_tab(question, lib, tts, timestamp) ==
    IF ~session_state.model_loaded THEN NotLoadedPage
    ELSE process_text_question(question, lib, tts, timestamp)

\* concept_explanation_tab with a concept typed and "Explain Concept" clicked
concept_explanation_tab(concept, lib, tts, timestamp) ==
    IF ~session_state.model_loaded THEN NotLoadedPage
    ELSE
    LET r == explain_concept(concept, session_state.current_language, lib)
        explanation == r.value
        page == IF r.raised THEN Page(TRUE, <<>>)
                ELSE IF explanation # ""
                THEN ShowResult("Explanation", explanation,
                                create_download_button(
                                    explanation,
                                    Replace(Lower(concept), " ", "_") \o "_explanation.txt",
                                    "Download Explanation"),
                                timestamp, "concept_explanation",
                                [concept |-> concept,
                                 explanation_length |-> Len(explanation),
                                 language |-> session_state.current_language],
                                tts, TRUE)
                ELSE Page(FALSE, <<<<"error", "Could not generate explanation. Please try again.">>>>)
    IN  page @@ [value |-> explanation, gen |-> r.gen]

process_textbook_image(file_name, ocr, lib, tts, timestamp) ==
    LET o == process_uploaded_image(ocr)
        extracted_text == o.value[1]
        confidence == o.value[2]
        detected_language == o.value[3]
        extracted == <<<<"success", "Text extracted successfully!">>,
                       <<"text_area", "Raw Text", extracted_text>>>>
                     \o display_confidence_bar(confidence)
                     \o <<<<"caption", "Detected language: "
                                      \o get_language_name(detected_language)>>>>
    IN  IF o.raised THEN Page(TRUE, <<>>) @@ [value |-> "", gen |-> NoGen]
        ELSE IF extracted_text = ""
        THEN Page(FALSE, <<<<"error", "Could not extract text from image. Please try a clearer image.">>>>)
             @@ [value |-> "", gen |-> NoGen]
        ELSE IF ~session_state.model_loaded
        THEN Page(FALSE, extracted) @@ [value |-> "", gen |-> NoGen]
        ELSE
        LET r == summarize_text(extracted_text, session_state.current_language, lib)
            summary == r.value
            shown == IF summary = "" THEN Page(FALSE, <<>>)
                     ELSE ShowResult("Student-Friendly Summary", summary,
                                     create_download_button(summary, "summary.txt",
                                                            "Download Summary")
                                     \o create_download_button(extracted_text,
                                                               "extracted_text.txt",
                                                               "Download Raw Text"),
                                     timestamp, "textbook_analysis",
                                     [file_name |-> file_name, confidence |-> confidence,
                                      language |-> detected_language,
                                      summary_length |-> Len(summary)],
                                     tts, TRUE)
        IN  IF r.raised THEN Page(TRUE, extracted) @@ [value |-> "", gen |-> r.gen]
            ELSE [shown EXCEPT !.ui = extracted \o @] @@ [value |-> summary, gen |-> r.gen]

\* textbook_analysis_tab with a valid file uploaded and "Analyze Image" clicked
textbook_analysis_tab(file_name, ocr, lib, tts, timestamp) ==
    IF ~session_state.model_loaded THEN NotLoadedPage
    ELSE process_textbook_image(file_name, ocr, lib, tts, timestamp)

\* the sidebar step is done and no sidebar button was clicked
AtTabs == op = "sidebar_settings" /\ args.click = "none"

\* One tab whose button was clicked: the page is extended, the log saved.
Handler(name, a, r) ==
    /\ AtTabs
    /\ Len(session_state.interaction_logs) < MaxLogs
    /\ op' = name
    /\ args' = a
    /\ ret' = [raised |-> r.raised, value |-> r.value]
    /\ gen' = r.gen
    /\ ui' = ui \o r.ui
    /\ session_state' = [session_state EXCEPT !.interaction_logs = r.logs]
    /\ UNCHANGED engine
    /\ UNCHANGED history

TextQaTab ==
    \E question \in Questions, lib \in TabGenOutcomes, tts \in TtsOutcomes,
       timestamp \in Timestamps :
        Handler("text_qa_tab", [text |-> question, lib |-> lib, tts |-> tts],
                text_qa_tab(question, lib, tts, timestamp))

ConceptExplanationTab ==
    \E concept \in Concepts, lib \in TabGenOutcomes, tts \in TtsOutcomes,
       timestamp \in Timestamps :
        Handler("concept_explanation_tab", [text |-> concept, lib |-> lib, tts |-> tts],
                concept_explanation_tab(concept, lib, tts, timestamp))

TextbookAnalysisTab ==
    \E file_name \in FileNames, ocr \in UploadOutcomes, lib \in TabGenOutcomes,
       tts \in TtsOutcomes, timestamp \in Timestamps :
        Handler("textbook_analysis_tab",
                [file_name |-> file_name, ocr |-> ocr, lib |-> lib, tts |-> tts],
                textbook_analysis_tab(file_name, ocr, lib, tts, timestamp))

NextApp ==
    \/ SidebarLoad
    \/ SidebarReload
    \/ SidebarWidgets
    \/ TextbookAnalysisTab
    \/ TextQaTab
    \/ ConceptExplanationTab
    \/ EndRun

SpecApp == Init /\ [][NextApp]_vars

HandlerOps == {"textbook_analysis_tab", "text_qa_tab", "concept_explanation_tab"}

\* the handler that ran obtained a non-empty summary, answer or explanation
TextGenerated == op \in HandlerOps /\ ret.value # ""

\* the type of the log entry each handler writes, and the length it records
LogType ==
    [textbook_analysis_tab |-> "textbook_analysis", text_qa_tab |-> "text_qa",
     concept_explanation_tab |-> "concept_explanation"]

LoggedLength(entry) ==
    CASE entry.type = "textbook_analysis" -> entry.details.summary_length
      [] entry.type = "text_qa" -> entry.details.answer_length
      [] entry.type = "concept_explanation" -> entry.details.explanation_length

\* The text-only result: the run did not raise; leaving the audio player and
\* the warning aside, the page ends with the text in bold followed by the
\* download buttons, the first of them for the text; and the last entry of
\* the interaction log is the entry of this run.
TextOnlyResult ==
    LET shown == SelectSeq(ui, LAMBDA e : e[1] \notin {"audio", "warning"})
        at == {k \in 1..Len(shown) : shown[k] = <<"markdown", "**" \o ret.value \o "**">>}
        logs == session_state.interaction_logs
    IN  /\ ~ret.raised
        /\ at # {}
        /\ \A k \in at :
               /\ k < Len(shown)
               /\ \A j \in (k + 1)..Len(shown) : shown[j][1] = "download_button"
               /\ shown[k + 1][3] = ret.value
        /\ logs # <<>>
        /\ logs[Len(logs)].type = LogType[op]
        /\ LoggedLength(logs[Len(logs)]) = Len(ret.value)

\* C18: when audio output is enabled and speech synthesis fails for a
\* generated summary, answer or explanation, the run goes on: the text is
\* displayed, the download button offered and the interaction logged, the
\* same text-only result as with audio output disabled, with a warning and
\* no audio player.
C18_AudioFailureIsNotFatal ==
    TextGenerated =>
        /\ ~session_state.audio_output_enabled =>
               /\ TextOnlyResult
               /\ \A k \in 1..Len(ui) : ui[k][1] \notin {"audio", "warning"}
        /\ (session_state.audio_output_enabled /\ args.tts # "none") =>
               /\ TextOnlyResult
               /\ \A k \in 1..Len(ui) : ui[k][1] # "audio"
               /\ \E k \in 1..Len(ui) : ui[k][1] = "warning"

\* tts.save threw while an answer was being read aloud
C18_Witness ==
    /\ op = "text_qa_tab"
    /\ session_state.audio_output_enabled
    /\ args.tts = "save"
    /\ ret.value = "Cells are the units of life."
    /\ <<"warning", "Audio generation failed: save">> \in {ui[k] : k \in 1..Len(ui)}
    /\ Len(session_state.interaction_logs) = 2

\* the errors the handlers show for an empty answer or explanation
CouldNotGenerate ==
    {<<"error", "Could not generate answer. Please try again.">>,
     <<"error", "Could not generate explanation. Please try again.">>}

\* C20: summarize_text, answer_question and explain_concept never return the
\* empty string and never raise, whatever the input, the language, the model
\* state and the model output (an empty generated text is replaced by the
\* fixed "Unable to generate ..." message); so no script run shows "Could
\* not generate answer" or "Could not generate explanation".
C20_NeverEmpty ==
    /\ op \in TemplatedOps =>
           /\ ~ret.raised
           /\ ret.value # ""
           /\ (gen.called /\ gen.value = "") => ret.value = UnableMessage[op]
    /\ op \in HandlerOps =>
           /\ \A k \in 1..Len(ui) : ui[k] \notin CouldNotGenerate
           /\ (op # "textbook_analysis_tab" /\ session_state.model_loaded) =>
                  ret.value # ""

\* a loaded model whose continuation was only whitespace
C20_Witness ==
    /\ op = "answer_question"
    /\ model_loaded
    /\ args.lib.fail = "none" /\ args.lib.text = " \n" /\ args.lib.echoes = 0
    /\ gen.called /\ gen.value = ""
    /\ ret.value = "Unable to generate answer at this time."


---------------------------------------------------------------------------
(* The engine's tokenizer and model, across load_model calls *)

\* C21: whenever model_loaded is true, the engine holds a tokenizer and a
\* model, and both were loaded from the same model identifier, whatever
\* load_model calls succeeded or failed before.
C21_LoadedPairFromOneId ==
    model_loaded =>
        /\ tokenizer # "None"
        /\ model # "None"
        /\ tokenizer = model


---------------------------------------------------------------------------
(* What update_settings leaves alone *)

\* update_settings calls between load_model calls of every outcome
SpecFrame == Init /\ [][LoadModel \/ UpdateSettings \/ EndRun]_vars

\* C22: an update_settings call changes only the settings it is given: each
\* of temperature, top_p and max_length whose argument is None keeps its
\* previous value, and model_loaded, model_name, the model and the tokenizer
\* are as they were before the call.
C22_UpdateSettingsFrame ==
    [][op' = "update_settings" =>
          /\ args'.temperature = None => temperature' = temperature
          /\ args'.top_p = None => top_p' = top_p
          /\ args'.max_length = None => max_length' = max_length
          /\ model_loaded' = model_loaded
          /\ model_name' = model_name
          /\ model' = model
          /\ tokenizer' = tokenizer]_vars

\* a loaded engine with a custom model name, temperature 1.5 and max_length
\* 512 was given a top_p only, and kept the other two
C22_Witness ==
    /\ op = "update_settings"
    /\ args = [temperature |-> None, top_p |-> Some(55), max_length |-> None]
    /\ temperature = 150 /\ top_p = 55 /\ max_length = 512
    /\ model_loaded /\ model # "None" /\ tokenizer # "None"
    /\ model_name = "google/gemma-2-2b-it"


---------------------------------------------------------------------------
(* The session's model_loaded flag and the engine's *)

\* the handler that ran called summarize_text, answer_question or
\* explain_concept (the texts the tabs pass are not blank, so the task looked
\* its template up)
TaskInvoked == op \in HandlerOps /\ gen.template # ""

\* C23: in every state of the script, the session flag model_loaded being
\* true implies the engine's model_loaded is true, and a tab calls
\* summarize_text, answer_question or explain_concept only while the session
\* flag is true; "Reload Model" clears the session flag only and leaves the
\* engine loaded, so the engine's flag does not imply the session's.
C23_SessionFlagImpliesEngineLoaded ==
    /\ session_state.model_loaded => model_loaded
    /\ TaskInvoked => session_state.model_loaded
    /\ (op = "rerun" /\ args.click = "Reload Model") =>
           /\ ~session_state.model_loaded
           /\ model_loaded /\ model # "None" /\ tokenizer # "None"

\* after "Reload Model" the engine is loaded and the session flag is not:
\* "Get Answer" shows the load-the-model error and asks the engine nothing
C23_Witness ==
    /\ op = "text_qa_tab"
    /\ model_loaded
    /\ ~session_state.model_loaded
    /\ ~TaskInvoked
    /\ <<"error", "Please load the AI model first!">> \in {ui[k] : k \in 1..Len(ui)}


---------------------------------------------------------------------------
(* The interaction log *)

\* C24: the interaction log is append-only.  In every step the log either
\* stays as it is or gets exactly one entry at its end, the earlier entries
\* and their order unchanged; it gets one exactly in the steps of a handler
\* that obtained a non-empty summary, answer or explanation (a summary needs
\* extracted text), and that entry is the handler's own.  So the length
\* never decreases and counts these successful actions.
C24_LogAppendOnly ==
    [][LET before == session_state.interaction_logs
           after == session_state'.interaction_logs
           successful == op' \in HandlerOps /\ ret'.value # ""
       IN  /\ Len(after) >= Len(before)
           /\ SubSeq(after, 1, Len(before)) = before
           /\ Len(after) = Len(before) + (IF successful THEN 1 ELSE 0)
           /\ successful =>
                  /\ after[Len(after)].type = LogType[op']
                  /\ LoggedLength(after[Len(after)]) = Len(ret'.value)
           /\ (op' = "textbook_analysis_tab" /\ successful) =>
                  args'.ocr.text.fail = "none" /\ args'.ocr.text.raw # ""]_vars

\* an answer was logged in one run and a summary in a later one: the log
\* holds the answer's entry first and the summary's entry after it
C24_Witness ==
    LET logs == session_state.interaction_logs
    IN  /\ op = "textbook_analysis_tab"
        /\ ret.value # ""
        /\ Len(logs) = 2
        /\ logs[1].type = "text_qa"
        /\ logs[2].type = "textbook_analysis"

=============================================================================
